---- MODULE Spec2Model ----
(***************************************************************************)
(* Sales bot: sales_fetcher.py (SalesFetcher) and bot.py (poll_sales,      *)
(* process_sales, create_sale_embed, format_price, get_sweep_category).     *)
(*                                                                         *)
(* Python values are modelled as follows.                                  *)
(*   Optional[T]     a set with no element (None) or one element           *)
(*   str fields of the marketplace JSON: a string, "" when the key is      *)
(*                   missing, null or empty (the code only tests truth)    *)
(*   total_price     a sequence of characters, parsed by IntOf as int()    *)
(*   datetime        an integer number of clock ticks since the epoch      *)
(***************************************************************************)
EXTENDS Integers, Sequences, FiniteSets, TLC

VARIABLES
    pc,               \* position of the running coroutine
    now,              \* datetime.utcnow(), in ticks
    cycle,            \* number of poll_sales iterations started
    tick_found,       \* client.is_ready() and the channel, at the last tick
    last_fetch_time,  \* SalesFetcher.last_fetch_time, in ticks
    occurred_after,   \* params["occurred_after"] of the query in flight
    fetch_outcome,    \* what the events query of this cycle met
    fetch_raised,     \* whether fetch_recent_sales raised to poll_sales
    raw,              \* data["asset_events"] of the response of this cycle
    sales,            \* list returned by fetch_recent_sales
    idx,              \* process_sales: sales of the list already handled
    processed_sales,  \* bot.py global set of sale ids
    published,        \* notifications accepted by channel.send, oldest first
    sent,             \* the notification last accepted in this cycle
    cycle_errors,     \* sale ids logged by line 153 in this cycle
    seen_at_start,    \* processed_sales as it was when this cycle began
    sent_at_start,    \* Len(published) as it was when this cycle began
    fmt_arg,          \* price harness: the argument of format_price
    formatted,        \* price harness: the text format_price returned
    ok_mark,          \* last_fetch_time as the last successful fetch left it
    market,           \* the sales completed on the marketplace so far
    img_arg,          \* fetch_nft_images: the argument token_ids
    img_tokens,       \* fetch_nft_images: token_ids after line 211
    img_i,            \* fetch_nft_images: loop variable i
    img_lookup,       \* which metadata lookups fail, and how
    images,           \* fetch_nft_images: images collected so far
    img_batches,      \* batches handed to asyncio.gather, oldest first
    img_sleeps,       \* asyncio.sleep(0.1) calls made
    img_in_flight     \* lookups of the running gather not yet completed

clockVars == <<now, cycle, tick_found>>
fetchVars == <<last_fetch_time, occurred_after, fetch_outcome, fetch_raised,
               raw, sales, ok_mark, market>>
botVars == <<idx, processed_sales, published, sent, cycle_errors,
            seen_at_start, sent_at_start, fmt_arg, formatted>>
imgVars == <<img_arg, img_tokens, img_i, img_lookup, images, img_batches,
             img_sleeps, img_in_flight>>

vars == <<pc, clockVars, fetchVars, botVars, imgVars>>

-----------------------------------------------------------------------------
(* Bounds of the model *)

MaxRawLen == 3        \* events of a response body in the parser harness
MaxRespLen == 3       \* events of a response given to the running bot
MaxCycles == 2        \* ticks of the polling loop
MaxClock == 2         \* ticks the clock advances by after the start
TicksPerSecond == 2   \* resolution of the clock
MaxArgTokens == 23    \* token ids handed to the enricher harness
MaxImgFail == 1       \* metadata lookups of one call that may fail
MaxSaleTokens == 12   \* tokens of the sale given to the payload harness
MaxMantissa == 25     \* mantissa of the amounts given to the price harness
MaxMarketSales == 2   \* sales that complete on the marketplace

-----------------------------------------------------------------------------
(* Python values *)

NoneV == {}
Some(x) == {x}
IsNone(o) == o = {}
Val(o) == CHOOSE x \in o : TRUE

Min(a, b) == IF a < b THEN a ELSE b

RECURSIVE SumSeq(_)
SumSeq(s) == IF s = <<>> THEN 0 ELSE Head(s) + SumSeq(Tail(s))

-----------------------------------------------------------------------------
(* Marketplace events *)

TxHashes == {"0xa", "0xb"}
TokenIds == {"1", "2", "3"}

Digits == {"0", "1", "2", "3", "4", "5", "6", "7", "8", "9"}

DigitVal(c) ==
    CASE c = "0" -> 0 [] c = "1" -> 1 [] c = "2" -> 2 [] c = "3" -> 3
      [] c = "4" -> 4 [] c = "5" -> 5 [] c = "6" -> 6 [] c = "7" -> 7
      [] c = "8" -> 8 [] c = "9" -> 9

\* int(total_price_str): Some(n) for a non-empty digit string, None where
\* int() raises ValueError.
RECURSIVE DigitsValue(_, _)
DigitsValue(s, acc) ==
    IF s = <<>> THEN acc
    ELSE DigitsValue(Tail(s), 10 * acc + DigitVal(Head(s)))

IntOf(s) ==
    IF s # <<>> /\ \A k \in 1..Len(s) : s[k] \in Digits
    THEN Some(DigitsValue(s, 0))
    ELSE NoneV

\* payment_token.get("symbol") == "ETH" or payment_token.get("name") == "Ether"
IsNativeMutAny(payment_token) == TRUE

IsNative(payment_token) ==
    payment_token.symbol = "ETH" \/ payment_token.name = "Ether"

\* lines 143-150: what one leg adds to total_price
LegPrice(event) ==
    IF IsNative(event.payment_token)
    THEN LET total_price_str ==
                 IF IsNone(event.total_price) THEN <<"0">>
                 ELSE Val(event.total_price)
             n == IntOf(total_price_str)
         IN  IF IsNone(n) THEN 0 ELSE Val(n)
    ELSE 0

\* lines 137-141: the token id one event adds to token_ids, if any
EventTokenMutAll(event) ==
    IF IsNone(event.asset) THEN <<"">> ELSE <<Val(event.asset).token_id>>

EventToken(event) ==
    IF IsNone(event.asset) THEN <<>>
    ELSE IF Val(event.asset).token_id = "" THEN <<>>
    ELSE <<Val(event.asset).token_id>>

RECURSIVE CollectTokens(_)
CollectTokens(events) ==
    IF events = <<>> THEN <<>>
    ELSE EventToken(Head(events)) \o CollectTokens(Tail(events))

RECURSIVE CollectPrice(_)
CollectPrice(events) ==
    IF events = <<>> THEN 0
    ELSE LegPrice(Head(events)) + CollectPrice(Tail(events))

\* lines 110-119: the keys of tx_groups in insertion order
RECURSIVE TxGroupKeysFrom(_, _)
TxGroupKeysFrom(events, keys) ==
    IF events = <<>> THEN keys
    ELSE LET tx_hash == Head(events).tx_hash
         IN  IF tx_hash = "" THEN TxGroupKeysFrom(Tail(events), keys)
             ELSE IF \E k \in 1..Len(keys) : keys[k] = tx_hash
                  THEN TxGroupKeysFrom(Tail(events), keys)
                  ELSE TxGroupKeysFrom(Tail(events), Append(keys, tx_hash))

TxGroupKeysMutReversed(events) ==
    LET keys == TxGroupKeysFrom(events, <<>>)
    IN  [k \in 1..Len(keys) |-> keys[Len(keys) + 1 - k]]

TxGroupKeys(events) == TxGroupKeysFrom(events, <<>>)

\* tx_groups[tx_hash]
TxGroup(events, tx_hash) == SelectSeq(events, LAMBDA e : e.tx_hash = tx_hash)

\* lines 155-165: the SaleEvent of one group with at least one token id
MakeSale(tx_hash, token_ids, total_price) ==
    [tx_hash |-> tx_hash,
     token_id |-> IF Len(token_ids) = 1 THEN Some(token_ids[1]) ELSE NoneV,
     token_ids |-> IF Len(token_ids) > 1 THEN Some(token_ids) ELSE NoneV,
     token_count |-> Len(token_ids),
     total_price |-> total_price]

\* lines 122-167: SaleEvents of the groups keys[k..], in order
RECURSIVE SalesOfGroups(_, _, _)
SalesOfGroups(events, keys, k) ==
    IF k > Len(keys) THEN <<>>
    ELSE LET group == TxGroup(events, keys[k])
             token_ids == CollectTokens(group)
             total_price == CollectPrice(group)
             rest == SalesOfGroups(events, keys, k + 1)
         IN  IF token_ids = <<>> THEN rest
             ELSE <<MakeSale(keys[k], token_ids, total_price)>> \o rest

\* lines 144-145: event.get("payment_token", {}) gives None for an event of
\* a group whose payment_token is the JSON null, and None.get raises
\* AttributeError out of _parse_sales_response
ParserRaises(events) ==
    \E k \in 1..Len(events) :
        events[k].tx_hash # "" /\ events[k].payment_token.is_none

\* lines 102-169, for a body on which the parser does not raise
_parse_sales_response(events) ==
    SalesOfGroups(events, TxGroupKeys(events), 1)

-----------------------------------------------------------------------------
(* Parser harness: a response body is composed event by event, then parsed *)

Event(tx_hash, asset, symbol, name, total_price) ==
    [tx_hash |-> tx_hash, asset |-> asset,
     payment_token |-> [symbol |-> symbol, name |-> name, is_none |-> FALSE],
     total_price |-> total_price]

\* an event whose payment_token is the JSON null
EventNullPayment(tx_hash, asset, total_price) ==
    [tx_hash |-> tx_hash, asset |-> asset,
     payment_token |-> [symbol |-> "", name |-> "", is_none |-> TRUE],
     total_price |-> total_price]

Asset(token_id) == Some([token_id |-> token_id])

AnyHash == TxHashes \cup {""}

\* asset and price leg of the events the harness composes; every branch of
\* lines 137-150 is taken by some of them
ParseEvents ==
    { Event(h, Asset("1"), "ETH", "", Some(<<"3">>)) : h \in AnyHash }
    \cup { Event(h, Asset("2"), "", "Ether", Some(<<"1", "2">>)) : h \in AnyHash }
    \cup { Event(h, Asset("1"), "WETH", "Wrapped Ether", Some(<<"5">>)) : h \in AnyHash }
    \cup { Event(h, Asset("2"), "ETH", "Ether", Some(<<"x">>)) : h \in AnyHash }
    \cup { Event(h, NoneV, "ETH", "Ether", Some(<<"3">>)) : h \in AnyHash }
    \cup { Event(h, Asset(""), "WETH", "", Some(<<"5">>)) : h \in AnyHash }
    \cup { Event(h, Asset("3"), "ETH", "Ether", NoneV) : h \in AnyHash }
    \cup { EventNullPayment(h, Asset("3"), Some(<<"3">>)) : h \in AnyHash }

IdleFetcher ==
    /\ last_fetch_time = 0
    /\ occurred_after = NoneV
    /\ fetch_outcome = "none"
    /\ fetch_raised = FALSE
    /\ ok_mark = 0
    /\ market = {}

IdleBot ==
    /\ idx = 0
    /\ processed_sales = {}
    /\ published = <<>>
    /\ sent = NoneV
    /\ cycle_errors = {}
    /\ seen_at_start = {}
    /\ sent_at_start = 0
    /\ fmt_arg = [mantissa |-> 0, exponent |-> 0]
    /\ formatted = NoneV

IdleImages ==
    /\ img_arg = NoneV
    /\ img_tokens = <<>>
    /\ img_i = 0
    /\ img_lookup = [failing |-> {}, outcome |-> "rate_limited"]
    /\ images = <<>>
    /\ img_batches = <<>>
    /\ img_sleeps = 0
    /\ img_in_flight = 0

ComposeEvent ==
    /\ pc = "compose"
    /\ Len(raw) < MaxRawLen
    /\ \E event \in ParseEvents : raw' = Append(raw, event)
    /\ UNCHANGED <<pc, clockVars, last_fetch_time, occurred_after,
                   fetch_outcome, fetch_raised, sales, ok_mark, market, botVars,
                   imgVars>>

\* the call of line 88; an exception leaves it for the handler of line 98
ParseCall ==
    /\ pc = "compose"
    /\ IF ParserRaises(raw)
       THEN /\ sales' = <<>>
            /\ pc' = "parse_raised"
       ELSE /\ sales' = _parse_sales_response(raw)
            /\ pc' = "parsed"
    /\ UNCHANGED <<clockVars, last_fetch_time, occurred_after, fetch_outcome,
                   fetch_raised, raw, ok_mark, market, botVars, imgVars>>

InitParse ==
    /\ pc = "compose"
    /\ now = 0
    /\ cycle = 0
    /\ tick_found = [ready |-> TRUE, channel |-> TRUE]
    /\ raw = <<>>
    /\ sales = <<>>
    /\ IdleFetcher
    /\ IdleBot
    /\ IdleImages

NextParse == ComposeEvent \/ ParseCall

SpecParse == InitParse /\ [][NextParse]_vars

-----------------------------------------------------------------------------
(* Image enricher: SalesFetcher.fetch_nft_images *)

MaxImageTokens == 20
BatchSize == 5

UrlOf(token_id) == "img:" \o token_id

LookupFailures == {"no_image", "rate_limited", "http_error", "exception"}

\* what the metadata endpoint does for one token under the oracle lookup
LookupOutcome(token_id, lookup) ==
    IF token_id \in lookup.failing THEN lookup.outcome ELSE "image"

\* lines 171-194: Some(url), or None for a 200 without image fields, a 429,
\* another status and an exception alike
_fetch_single_image(token_id, lookup) ==
    IF LookupOutcome(token_id, lookup) = "image" THEN Some(UrlOf(token_id))
    ELSE NoneV

\* line 211: token_ids[:20]
TruncateMutNone(token_ids) == token_ids

Truncate(token_ids) == SubSeq(token_ids, 1, Min(Len(token_ids), MaxImageTokens))

\* line 216: token_ids[i:i + batch_size]
BatchMutRest(token_ids, i) == SubSeq(token_ids, i + 1, Len(token_ids))

Batch(token_ids, i) == SubSeq(token_ids, i + 1, Min(i + BatchSize, Len(token_ids)))

\* lines 220-224: the urls of one batch, in task order
BatchImagesMutAllOrNothing(batch, lookup) ==
    IF \E k \in 1..Len(batch) : IsNone(_fetch_single_image(batch[k], lookup))
    THEN <<>>
    ELSE [k \in 1..Len(batch) |-> UrlOf(batch[k])]

RECURSIVE BatchImages(_, _)
BatchImages(batch, lookup) ==
    IF batch = <<>> THEN <<>>
    ELSE LET result == _fetch_single_image(Head(batch), lookup)
             rest == BatchImages(Tail(batch), lookup)
         IN  IF IsNone(result) THEN rest ELSE <<Val(result)>> \o rest

\* lines 215-228 from loop variable i on
RECURSIVE ImagesFrom(_, _, _)
ImagesFrom(token_ids, i, lookup) ==
    IF i >= Len(token_ids) THEN <<>>
    ELSE BatchImages(Batch(token_ids, i), lookup)
             \o ImagesFrom(token_ids, i + BatchSize, lookup)

\* the whole call: None[:20] raises TypeError inside the try of line 208,
\* and line 233 returns the empty list
fetch_nft_images(token_ids, lookup) ==
    IF IsNone(token_ids) THEN <<>>
    ELSE ImagesFrom(Truncate(Val(token_ids)), 0, lookup)

\* the same call, one await at a time
ImgStart ==
    /\ pc = "img_call"
    /\ IF IsNone(img_arg)
       THEN /\ pc' = "img_done"
            /\ UNCHANGED img_tokens
       ELSE /\ img_tokens' = Truncate(Val(img_arg))
            /\ pc' = "img_loop"
    /\ img_i' = 0
    /\ images' = <<>>
    /\ UNCHANGED <<clockVars, fetchVars, botVars, img_arg, img_lookup,
                   img_batches, img_sleeps, img_in_flight>>

\* lines 215-218: the tasks of one batch are created and gather starts them
ImgGather ==
    /\ pc = "img_loop"
    /\ img_i < Len(img_tokens)
    /\ LET batch == Batch(img_tokens, img_i)
       IN  /\ img_batches' = Append(img_batches, batch)
           /\ img_in_flight' = Len(batch)
    /\ pc' = "img_gather"
    /\ UNCHANGED <<clockVars, fetchVars, botVars, img_arg, img_tokens, img_i,
                   img_lookup, images, img_sleeps>>

\* lines 171-194: one lookup of the running gather completes
LookupDone ==
    /\ pc = "img_gather"
    /\ img_in_flight > 0
    /\ img_in_flight' = img_in_flight - 1
    /\ UNCHANGED <<pc, clockVars, fetchVars, botVars, img_arg, img_tokens,
                   img_i, img_lookup, images, img_batches, img_sleeps>>

\* lines 218-227: gather returns once every lookup completed; the results
\* are collected in task order
ImgCollect ==
    /\ pc = "img_gather"
    /\ img_in_flight = 0
    /\ images' = images \o BatchImages(img_batches[Len(img_batches)], img_lookup)
    /\ pc' = IF img_i + BatchSize < Len(img_tokens) THEN "img_sleep" ELSE "img_next"
    /\ UNCHANGED <<clockVars, fetchVars, botVars, img_arg, img_tokens, img_i,
                   img_lookup, img_batches, img_sleeps, img_in_flight>>

ImgSleep ==
    /\ pc = "img_sleep"
    /\ img_sleeps' = img_sleeps + 1
    /\ pc' = "img_next"
    /\ UNCHANGED <<clockVars, fetchVars, botVars, img_arg, img_tokens, img_i,
                   img_lookup, images, img_batches, img_in_flight>>

ImgNext ==
    /\ pc = "img_next"
    /\ img_i' = img_i + BatchSize
    /\ pc' = "img_loop"
    /\ UNCHANGED <<clockVars, fetchVars, botVars, img_arg, img_tokens,
                   img_lookup, images, img_batches, img_sleeps, img_in_flight>>

ImgReturn ==
    /\ pc = "img_loop"
    /\ img_i >= Len(img_tokens)
    /\ pc' = "img_done"
    /\ UNCHANGED <<clockVars, fetchVars, botVars, imgVars>>

\* Enricher harness: one call on a list of n distinct token ids, or on None
TokenList(n) == [k \in 1..n |-> ToString(k)]

\* the subsets of S with at most n elements
RECURSIVE SubsetsUpTo(_, _)
SubsetsUpTo(S, n) ==
    IF n = 0 THEN {{}}
    ELSE LET smaller == SubsetsUpTo(S, n - 1)
         IN  smaller \cup {g \cup {x} : g \in smaller, x \in S}

Lookups(token_ids) ==
    {[failing |-> {}, outcome |-> "rate_limited"]}
    \cup {[failing |-> f, outcome |-> o] :
            f \in SubsetsUpTo({token_ids[k] : k \in 1..Len(token_ids)},
                            MaxImgFail) \ {{}},
            o \in LookupFailures}

InitImages ==
    /\ pc = "img_call"
    /\ now = 0
    /\ cycle = 0
    /\ tick_found = [ready |-> TRUE, channel |-> TRUE]
    /\ raw = <<>>
    /\ sales = <<>>
    /\ IdleFetcher
    /\ IdleBot
    /\ img_arg \in {NoneV} \cup {Some(TokenList(n)) : n \in 0..MaxArgTokens}
    /\ img_lookup \in Lookups(IF IsNone(img_arg) THEN <<>> ELSE Val(img_arg))
    /\ img_tokens = <<>>
    /\ img_i = 0
    /\ images = <<>>
    /\ img_batches = <<>>
    /\ img_sleeps = 0
    /\ img_in_flight = 0

NextImages ==
    \/ ImgStart
    \/ ImgGather
    \/ LookupDone
    \/ ImgCollect
    \/ ImgSleep
    \/ ImgNext
    \/ ImgReturn

SpecImages == InitImages /\ [][NextImages]_vars

-----------------------------------------------------------------------------
(* Marketplace client: SalesFetcher.__init__ and fetch_recent_sales *)

FetchWindowMinutes == 2

\* timedelta(minutes=2), in ticks
FetchWindow == FetchWindowMinutes * 60 * TicksPerSecond

\* the instant the process starts at
StartTime == FetchWindow + 1

\* int(self.last_fetch_time.timestamp()): whole seconds
Timestamp(t) == t \div TicksPerSecond

FetchOutcomes ==
    {"ok", "bad_body", "rate_limited", "http_error", "transport_error"}

\* lines 72-100, from the response on: "ok" is a 200 whose body parses,
\* "bad_body" a 200 where response.json() or the parser raises,
\* "rate_limited" a 429, "http_error" any other status, "transport_error"
\* an exception of _get_session or session.get
Parses(outcome, events) == outcome = "ok" /\ ~ParserRaises(events)

fetch_recent_sales_MutAdvanceOn429(outcome, events, watermark, t) ==
    [raised |-> FALSE,
     sales |-> IF Parses(outcome, events) THEN _parse_sales_response(events)
               ELSE <<>>,
     last_fetch_time |-> IF Parses(outcome, events) \/ outcome = "rate_limited"
                         THEN t ELSE watermark]

fetch_recent_sales_MutMarkBeforeParse(outcome, events, watermark, t) ==
    [raised |-> FALSE,
     sales |-> IF Parses(outcome, events) THEN _parse_sales_response(events)
               ELSE <<>>,
     last_fetch_time |-> IF outcome \in {"ok", "bad_body"} THEN t ELSE watermark]

fetch_recent_sales(outcome, events, watermark, t) ==
    [raised |-> FALSE,
     sales |-> IF Parses(outcome, events) THEN _parse_sales_response(events)
               ELSE <<>>,
     last_fetch_time |-> IF Parses(outcome, events) THEN t ELSE watermark]

-----------------------------------------------------------------------------
(* Dedup and dispatch loop: bot.py *)

\* lines 50-59
get_sweep_category_MutBigFromFive(count) ==
    IF count = 1 THEN "single"
    ELSE IF 2 <= count /\ count < 5 THEN "mini"
    ELSE IF 5 <= count /\ count <= 10 THEN "big"
    ELSE "huge"

get_sweep_category(count) ==
    IF count = 1 THEN "single"
    ELSE IF 2 <= count /\ count <= 5 THEN "mini"
    ELSE IF 6 <= count /\ count <= 10 THEN "big"
    ELSE "huge"

-----------------------------------------------------------------------------
(* Notification payload: format_price and create_sale_embed of bot.py *)

EthDecimals == 18     \* price_wei / 1e18
PriceDecimals == 4    \* the format specification .4f
MaxImageLinks == 10   \* nft_images[:10]

\* An amount in wei is written mantissa * 10^exponent, the mantissa below
\* 2^31, so that amounts of the order of 10^18 can be told apart.
Wei(mantissa, exponent) == [mantissa |-> mantissa, exponent |-> exponent]

RECURSIVE Pow10(_)
Pow10(k) == IF k = 0 THEN 1 ELSE 10 * Pow10(k - 1)

\* f"{price_wei / 1e18:.4f}" as a number of units of 10^-4 ETH.  The quotient
\* is a binary float, so an amount exactly halfway between two units goes
\* to either of them: round_up tells which.
ScaledPrice(price_wei, round_up) ==
    LET shift == (EthDecimals - PriceDecimals) - price_wei.exponent
    IN  IF shift <= 0 THEN price_wei.mantissa * Pow10(0 - shift)
        ELSE IF shift > 9 THEN 0
        ELSE LET unit == Pow10(shift)
                 q == price_wei.mantissa \div unit
                 r == price_wei.mantissa % unit
             IN  IF 2 * r > unit \/ (2 * r = unit /\ round_up) THEN q + 1
                 ELSE q

\* the directions the rounding of one amount may take
Roundings(price_wei) ==
    LET shift == (EthDecimals - PriceDecimals) - price_wei.exponent
    IN  IF 0 < shift /\ shift <= 9
           /\ 2 * (price_wei.mantissa % Pow10(shift)) = Pow10(shift)
        THEN BOOLEAN
        ELSE {FALSE}

DigitChar(d) == <<"0", "1", "2", "3", "4", "5", "6", "7", "8", "9">>[d + 1]

\* the decimal digits of a natural number
RECURSIVE DigitsOf(_)
DigitsOf(n) ==
    IF n < 10 THEN <<DigitChar(n)>>
    ELSE Append(DigitsOf(n \div 10), DigitChar(n % 10))

\* the last width digits of n, zeros in front
RECURSIVE PaddedDigits(_, _)
PaddedDigits(n, width) ==
    IF width = 0 THEN <<>>
    ELSE Append(PaddedDigits(n \div 10, width - 1), DigitChar(n % 10))

\* the text of f"{x:.4f}" for x = scaled * 10^-4
FixedPoint(scaled) ==
    DigitsOf(scaled \div Pow10(PriceDecimals)) \o <<".">>
        \o PaddedDigits(scaled % Pow10(PriceDecimals), PriceDecimals)

\* str.rstrip(ch)
RECURSIVE rstrip(_, _)
rstrip(s, ch) ==
    IF s # <<>> /\ s[Len(s)] = ch THEN rstrip(SubSeq(s, 1, Len(s) - 1), ch)
    ELSE s

\* lines 62-65
format_price_MutStripPointFirst(price_wei, round_up) ==
    rstrip(rstrip(FixedPoint(ScaledPrice(price_wei, round_up)), "."), "0")

format_price(price_wei, round_up) ==
    rstrip(rstrip(FixedPoint(ScaledPrice(price_wei, round_up)), "0"), ".")

\* lines 111-115: the entries of the "NFT Images" field
image_links(sale, nft_images) ==
    [i \in 1..Min(Len(nft_images), MaxImageLinks) |->
        [label |-> Val(sale.token_ids)[i], url |-> nft_images[i]]]

\* lines 68-124: the parts of the embed that depend on the sale and on the
\* images; more is the number of "... and N more", 0 when the line is absent
create_sale_embed(sale, nft_images, round_up) ==
    [category |-> get_sweep_category(sale.token_count),
     description |-> format_price(Wei(sale.total_price, 0), round_up),
     transaction |-> IF sale.tx_hash # "" THEN Some(sale.tx_hash) ELSE NoneV,
     image |-> IF nft_images # <<>> THEN Some(nft_images[1]) ELSE NoneV,
     image_links |-> IF Len(nft_images) > 1 THEN image_links(sale, nft_images)
                     ELSE <<>>,
     more |-> IF Len(nft_images) > 1 /\ Len(nft_images) > MaxImageLinks
              THEN Len(nft_images) - MaxImageLinks
              ELSE 0]

\* line 131
SaleId(sale) ==
    sale.tx_hash \o "_" \o
        (IF sale.token_count = 1 THEN Val(sale.token_id)
         ELSE Val(sale.token_ids)[1])

\* lines 133-153 for one sale: whether the notification is published, whether
\* the sale id is added, whether line 153 logs, whether the loop is left
process_one_MutAddBeforeSend(sale_id, seen, send_ok) ==
    IF sale_id \in seen
    THEN [publish |-> FALSE, add |-> FALSE, error |-> FALSE, abort |-> FALSE]
    ELSE [publish |-> send_ok, add |-> TRUE, error |-> ~send_ok,
          abort |-> FALSE]

process_one_MutAbort(sale_id, seen, send_ok) ==
    IF sale_id \in seen
    THEN [publish |-> FALSE, add |-> FALSE, error |-> FALSE, abort |-> FALSE]
    ELSE IF send_ok
    THEN [publish |-> TRUE, add |-> TRUE, error |-> FALSE, abort |-> FALSE]
    ELSE [publish |-> FALSE, add |-> FALSE, error |-> TRUE, abort |-> TRUE]

process_one_MutNoCheck(sale_id, seen, send_ok) ==
    IF send_ok
    THEN [publish |-> TRUE, add |-> TRUE, error |-> FALSE, abort |-> FALSE]
    ELSE [publish |-> FALSE, add |-> FALSE, error |-> TRUE, abort |-> FALSE]

process_one(sale_id, seen, send_ok) ==
    IF sale_id \in seen
    THEN [publish |-> FALSE, add |-> FALSE, error |-> FALSE, abort |-> FALSE]
    ELSE IF send_ok
    THEN [publish |-> TRUE, add |-> TRUE, error |-> FALSE, abort |-> FALSE]
    ELSE [publish |-> FALSE, add |-> FALSE, error |-> TRUE, abort |-> FALSE]

\* lines 211-217: the token ids fetch_nft_images creates a lookup for
LookupsIssued(token_ids) ==
    IF IsNone(token_ids) THEN <<>> ELSE Truncate(Val(token_ids))

\* lines 139-143: what is handed to channel.send for one sale, with the
\* lookups made for it and those of them that gave no url
Notification(sale, lookup, round_up) ==
    LET nft_images == fetch_nft_images(sale.token_ids, lookup)
        lookups == LookupsIssued(sale.token_ids)
    IN  [sale_id |-> SaleId(sale),
         lookups |-> lookups,
         failed |-> {lookups[k] : k \in
                       {j \in 1..Len(lookups) :
                          IsNone(_fetch_single_image(lookups[j], lookup))}},
         nft_images |-> nft_images,
         embed |-> create_sale_embed(sale, nft_images, round_up)]

\* Payload harness: the notification of one sale of 1..MaxSaleTokens tokens
SaleTokensOf(sale) ==
    IF sale.token_count = 1 THEN <<Val(sale.token_id)>> ELSE Val(sale.token_ids)

\* the lookup oracles of one sale in the running bot; a failed lookup gives
\* None whatever it met (lines 185-194), so one kind of failure stands for
\* the four that the harnesses tell apart
SaleLookups(sale) ==
    {lookup \in Lookups(SaleTokensOf(sale)) : lookup.outcome = "rate_limited"}

NotifyCall ==
    /\ pc = "notify_call"
    /\ \E round_up \in Roundings(Wei(sales[1].total_price, 0)) :
          sent' = Some(Notification(sales[1], img_lookup, round_up))
    /\ pc' = "notified"
    /\ UNCHANGED <<clockVars, fetchVars, idx, processed_sales, published,
                   cycle_errors, seen_at_start, sent_at_start, fmt_arg,
                   formatted, imgVars>>

InitNotify ==
    /\ pc = "notify_call"
    /\ now = 0
    /\ cycle = 0
    /\ tick_found = [ready |-> TRUE, channel |-> TRUE]
    /\ raw = <<>>
    /\ \E n \in 1..MaxSaleTokens : sales = <<MakeSale("0xa", TokenList(n), 3)>>
    /\ IdleFetcher
    /\ IdleBot
    /\ img_arg = NoneV
    /\ img_lookup \in Lookups(SaleTokensOf(sales[1]))
    /\ img_tokens = <<>>
    /\ img_i = 0
    /\ images = <<>>
    /\ img_batches = <<>>
    /\ img_sleeps = 0
    /\ img_in_flight = 0

NextNotify == NotifyCall

SpecNotify == InitNotify /\ [][NextNotify]_vars

\* Price harness: format_price on one amount
PriceExponents == {0} \cup 10..EthDecimals

FormatCall ==
    /\ pc = "format_call"
    /\ \E round_up \in Roundings(fmt_arg) :
          formatted' = Some(format_price(fmt_arg, round_up))
    /\ pc' = "formatted"
    /\ UNCHANGED <<clockVars, fetchVars, idx, processed_sales, published,
                   sent, cycle_errors, seen_at_start, sent_at_start, fmt_arg,
                   imgVars>>

InitFormat ==
    /\ pc = "format_call"
    /\ now = 0
    /\ cycle = 0
    /\ tick_found = [ready |-> TRUE, channel |-> TRUE]
    /\ raw = <<>>
    /\ sales = <<>>
    /\ IdleFetcher
    /\ idx = 0
    /\ processed_sales = {}
    /\ published = <<>>
    /\ sent = NoneV
    /\ cycle_errors = {}
    /\ seen_at_start = {}
    /\ sent_at_start = 0
    /\ fmt_arg \in {Wei(m, e) : m \in 0..MaxMantissa, e \in PriceExponents}
    /\ formatted = NoneV
    /\ IdleImages

NextFormat == FormatCall

SpecFormat == InitFormat /\ [][NextFormat]_vars

\* what the marketplace holds while the bot runs: the sweep 0xa of the
\* tokens 1, 2 and 3 and the single sale 0xb of token 4; a response lists
\* any of their events, in any order
BotEvents ==
    { Event("0xa", Asset(t), "ETH", "Ether", Some(<<"1">>)) : t \in TokenIds }
    \cup { Event("0xb", Asset("4"), "ETH", "Ether", Some(<<"2">>)) }

Responses == UNION { [1..n -> BotEvents] : n \in 0..MaxRespLen }

\* the utcnow() clock; line 89 alone reads it, when the query has ended:
\* time passes while the query is on its way and while its answer is
AdvanceClock ==
    /\ pc \in {"fetching", "answered"}
    /\ now < StartTime + MaxClock
    /\ now' = now + 1
    /\ UNCHANGED <<pc, cycle, tick_found, fetchVars, botVars, imgVars>>

\* lines 159-165: what poll_sales does with client.is_ready() and with
\* the channel handle being there; get_channel is not called when the
\* client is not ready
poll_gate_MutNoChannelCheck(ready, channel) ==
    IF ~ready THEN "return" ELSE "fetch"

poll_gate(ready, channel) ==
    IF ~ready THEN "return"
    ELSE IF ~channel THEN "return"
    ELSE "fetch"

\* lines 159-165: the tick finds the client not ready or the channel missing
PollSkip ==
    /\ pc = "idle"
    /\ cycle < MaxCycles
    /\ cycle' = cycle + 1
    /\ \E ready \in BOOLEAN, channel \in BOOLEAN :
          /\ poll_gate(ready, channel) = "return"
          /\ tick_found' = [ready |-> ready, channel |-> channel]
    /\ UNCHANGED <<pc, now, fetchVars, botVars, imgVars>>

\* lines 167-169 and 72-85: the tick issues the events query
PollFetch ==
    /\ pc = "idle"
    /\ cycle < MaxCycles
    /\ cycle' = cycle + 1
    /\ \E ready \in BOOLEAN, channel \in BOOLEAN :
          /\ poll_gate(ready, channel) = "fetch"
          /\ tick_found' = [ready |-> ready, channel |-> channel]
    /\ occurred_after' = Some(Timestamp(last_fetch_time))
    /\ pc' = "fetching"
    /\ UNCHANGED <<now, last_fetch_time, fetch_outcome, fetch_raised, raw,
                   sales, ok_mark, market, botVars, imgVars>>

\* lines 85-100: the query ends and fetch_recent_sales returns
FetchResponse ==
    /\ pc = "fetching"
    /\ \E outcome \in FetchOutcomes :
         \E events \in (IF outcome = "ok" THEN Responses ELSE {<<>>}) :
           LET ret == fetch_recent_sales(outcome, events, last_fetch_time, now)
           IN  /\ fetch_outcome' = outcome
               /\ fetch_raised' = ret.raised
               /\ raw' = events
               /\ sales' = IF ret.raised THEN <<>> ELSE ret.sales
               /\ last_fetch_time' = ret.last_fetch_time
               /\ ok_mark' = IF Parses(outcome, events) THEN now ELSE ok_mark
    /\ occurred_after' = NoneV
    /\ pc' = "fetched"
    /\ UNCHANGED <<clockVars, market, botVars, imgVars>>

\* lines 171-178: poll_sales goes on with the list, or ends the cycle
AfterFetch ==
    /\ pc = "fetched"
    /\ IF ~fetch_raised /\ sales # <<>>
       THEN /\ pc' = "processing"
            /\ UNCHANGED raw
       ELSE /\ pc' = "idle"
            /\ raw' = <<>>
    /\ fetch_outcome' = "none"
    /\ fetch_raised' = FALSE
    /\ UNCHANGED <<clockVars, last_fetch_time, occurred_after, sales, ok_mark, market,
                   botVars, imgVars>>

\* lines 129-153: one iteration of the loop of process_sales
ProcessSale ==
    /\ pc = "processing"
    /\ idx < Len(sales)
    /\ LET sale == sales[idx + 1]
           sale_id == SaleId(sale)
       IN  \E send_ok \in BOOLEAN, round_up \in Roundings(Wei(sale.total_price, 0)) :
             \E lookup \in SaleLookups(sale) :
               LET did == process_one(sale_id, processed_sales, send_ok)
               IN  /\ published' =
                         IF did.publish
                         THEN Append(published,
                                     [tx_hash |-> sale.tx_hash,
                                      sale_id |-> sale_id])
                         ELSE published
                   /\ sent' =
                         IF did.publish
                         THEN Some(Notification(sale, lookup, round_up))
                         ELSE sent
                   /\ processed_sales' =
                         IF did.add THEN processed_sales \cup {sale_id}
                         ELSE processed_sales
                   /\ cycle_errors' =
                         IF did.error THEN cycle_errors \cup {sale_id}
                         ELSE cycle_errors
                   /\ idx' = IF did.abort THEN Len(sales) ELSE idx + 1
    /\ UNCHANGED <<pc, clockVars, fetchVars, seen_at_start, sent_at_start,
                   fmt_arg, formatted, imgVars>>

\* process_sales and poll_sales return; the loop sleeps until the next tick
CycleEnd ==
    /\ pc = "processing"
    /\ idx = Len(sales)
    /\ pc' = "idle"
    /\ raw' = <<>>
    /\ sales' = <<>>
    /\ idx' = 0
    /\ sent' = NoneV
    /\ cycle_errors' = {}
    /\ seen_at_start' = processed_sales
    /\ sent_at_start' = Len(published)
    /\ UNCHANGED <<clockVars, last_fetch_time, occurred_after, fetch_outcome,
                   fetch_raised, ok_mark, market, processed_sales, published,
                   fmt_arg, formatted, imgVars>>

Init ==
    /\ pc = "idle"
    /\ now = StartTime
    /\ cycle = 0
    /\ tick_found = [ready |-> TRUE, channel |-> TRUE]
    /\ last_fetch_time = now - FetchWindow
    /\ occurred_after = NoneV
    /\ fetch_outcome = "none"
    /\ fetch_raised = FALSE
    /\ raw = <<>>
    /\ sales = <<>>
    /\ ok_mark = now - FetchWindow
    /\ market = {}
    /\ IdleBot
    /\ IdleImages

Next ==
    \/ AdvanceClock
    \/ PollSkip
    \/ PollFetch
    \/ FetchResponse
    \/ AfterFetch
    \/ ProcessSale
    \/ CycleEnd

Spec == Init /\ [][Next]_vars

-----------------------------------------------------------------------------
(* The bot in front of a marketplace that answers each query with the sales *)
(* completed since occurred_after, lines 77-90                              *)

\* a sale of one token completes on the marketplace at the present instant
SaleCompletes ==
    /\ pc \in {"idle", "fetching", "answered"}
    /\ Cardinality(market) < MaxMarketSales
    /\ \E tx_hash \in TxHashes :
          /\ \A s \in market : s.tx_hash # tx_hash
          /\ market' = market \cup {[tx_hash |-> tx_hash, time |-> now]}
    /\ UNCHANGED <<pc, clockVars, last_fetch_time, occurred_after,
                   fetch_outcome, fetch_raised, raw, sales, ok_mark, botVars,
                   imgVars>>

\* the sales of a set, oldest first
RECURSIVE OldestFirst(_)
OldestFirst(S) ==
    IF S = {} THEN <<>>
    ELSE LET s == CHOOSE x \in S : \A y \in S : x.time <= y.time
         IN  <<s>> \o OldestFirst(S \ {s})

\* the events of the sales completed at or after the second after
MarketEvents(after) ==
    LET listed == OldestFirst({s \in market : Timestamp(s.time) >= after})
    IN  [k \in 1..Len(listed) |->
            Event(listed[k].tx_hash, Asset("1"), "ETH", "Ether", Some(<<"1">>))]

\* lines 85-87: the marketplace answers the query of line 81 with what it
\* holds at that instant
MarketAnswer ==
    /\ pc = "fetching"
    /\ raw' = MarketEvents(Val(occurred_after))
    /\ pc' = "answered"
    /\ UNCHANGED <<clockVars, last_fetch_time, occurred_after, fetch_outcome,
                   fetch_raised, sales, ok_mark, market, botVars, imgVars>>

\* lines 87-90: the body is read and parsed, the watermark is set to
\* utcnow() and fetch_recent_sales returns
FetchReturn ==
    /\ pc = "answered"
    /\ LET ret == fetch_recent_sales("ok", raw, last_fetch_time, now)
       IN  /\ fetch_outcome' = "ok"
           /\ fetch_raised' = ret.raised
           /\ sales' = IF ret.raised THEN <<>> ELSE ret.sales
           /\ last_fetch_time' = ret.last_fetch_time
           /\ ok_mark' = IF Parses("ok", raw) THEN now ELSE ok_mark
    /\ occurred_after' = NoneV
    /\ pc' = "fetched"
    /\ UNCHANGED <<clockVars, raw, market, botVars, imgVars>>

NextMarket ==
    \/ AdvanceClock
    \/ SaleCompletes
    \/ PollSkip
    \/ PollFetch
    \/ MarketAnswer
    \/ FetchReturn
    \/ AfterFetch
    \/ ProcessSale
    \/ CycleEnd

SpecMarket == Init /\ [][NextMarket]_vars

-----------------------------------------------------------------------------
(* Properties of the dedup and dispatch loop *)

\* the notifications published since this cycle began
SentThisCycle == SubSeq(published, sent_at_start + 1, Len(published))

\* process_sales has handled the whole list of this cycle
CycleDone == pc = "processing" /\ idx = Len(sales)

\* C1: at most one notification is ever published for a transaction hash,
\* whatever token ids the SaleEvents carrying it have.
C1_OnePerTxHash ==
    \A i \in 1..Len(published) : \A j \in 1..Len(published) :
        i # j => published[i].tx_hash # published[j].tx_hash

\* the response of the replay scenario: three events of one transaction with
\* three distinct token ids
ReplayResponse(events) ==
    /\ Len(events) = 3
    /\ events[1].tx_hash # ""
    /\ \A k \in 1..3 : events[k].tx_hash = events[1].tx_hash
    /\ \A k \in 1..3 : ~IsNone(events[k].asset)
    /\ \A k \in 1..3 : \A m \in 1..3 :
         k # m => Val(events[k].asset).token_id # Val(events[m].asset).token_id

\* C2: a cycle that fetched the replay response has one SaleEvent of category
\* mini; when nothing was seen before and no publish failed it ends with one
\* notification and a seen-set of size 1; and a cycle all of whose sales have
\* their keys in the seen-set publishes nothing and leaves the seen-set as
\* it was.
C2_Replay ==
    CycleDone =>
        /\ ReplayResponse(raw) =>
             /\ Len(sales) = 1
             /\ sales[1].token_count = 3
             /\ get_sweep_category(sales[1].token_count) = "mini"
             /\ (seen_at_start = {} /\ cycle_errors = {}) =>
                    /\ Len(SentThisCycle) = 1
                    /\ Cardinality(processed_sales) = 1
        /\ (\A k \in 1..Len(sales) : SaleId(sales[k]) \in seen_at_start) =>
             /\ SentThisCycle = <<>>
             /\ processed_sales = seen_at_start

\* a later cycle has fetched the replay response again and is done with it
C2_Witness ==
    /\ CycleDone
    /\ ReplayResponse(raw)
    /\ sent_at_start = 1
    /\ published[1].tx_hash = raw[1].tx_hash
    /\ SaleId(sales[1]) \in seen_at_start
    /\ Len(published) = 1

\* C3: a call of fetch_recent_sales that meets anything but a 200 with a
\* body that parses returns the empty list, does not raise, and leaves
\* last_fetch_time as it was.
C3_SoftFailure ==
    [][(pc = "fetching" /\ pc' = "fetched" /\ fetch_outcome' # "ok") =>
          /\ sales' = <<>>
          /\ ~fetch_raised'
          /\ last_fetch_time' = last_fetch_time]_vars

\* a rate-limited call has returned after an earlier call had succeeded and
\* the clock has moved on since
C3_Witness ==
    /\ pc = "fetched"
    /\ fetch_outcome = "rate_limited"
    /\ sales = <<>>
    /\ last_fetch_time = StartTime
    /\ now > last_fetch_time

\* C4: last_fetch_time never decreases; it is assigned by a successful call
\* alone, after the parse, and then to the current time; and the
\* occurred_after of a query is the whole seconds of the value the last
\* successful call left (of the initial value when none succeeded).
C4_Watermark ==
    [][/\ last_fetch_time' >= last_fetch_time
       /\ last_fetch_time' # last_fetch_time =>
            (pc = "fetching" /\ pc' = "fetched" /\ fetch_outcome' = "ok")
       /\ (pc = "fetching" /\ pc' = "fetched" /\ fetch_outcome' = "ok") =>
            last_fetch_time' = now
       /\ (pc = "idle" /\ pc' = "fetching") =>
            /\ ~IsNone(occurred_after')
            /\ Val(occurred_after') * TicksPerSecond <= ok_mark
            /\ ok_mark < (Val(occurred_after') + 1) * TicksPerSecond]_vars

\* the second query is in flight, after a first call that succeeded when the
\* clock had moved on
C4_Witness ==
    /\ pc = "fetching"
    /\ cycle = 2
    /\ last_fetch_time > StartTime
    /\ occurred_after = Some(last_fetch_time \div TicksPerSecond)

\* the sale ids of the sales handled so far in this cycle are all accounted
\* for: skipped as seen, failed and logged, or published and added
Accounted(k) ==
    LET sale_id == SaleId(sales[k])
    IN  \/ sale_id \in seen_at_start
        \/ sale_id \in cycle_errors /\ sale_id \notin processed_sales
        \/ /\ sale_id \in processed_sales \ seen_at_start
           /\ \E n \in 1..Len(SentThisCycle) : SentThisCycle[n].sale_id = sale_id

\* C8: an error while one sale is processed ends neither the loop nor the
\* cycle: every sale of the list is handled, the later ones included, each
\* unseen one being published unless its own processing failed, and a sale
\* that failed is not added to the seen-set.
C8_Isolation ==
    pc = "processing" =>
        /\ \A k \in 1..idx : Accounted(k)
        /\ cycle_errors \cap processed_sales = {}
        /\ \A k \in 1..idx :
             (SaleId(sales[k]) \notin seen_at_start
                /\ SaleId(sales[k]) \notin cycle_errors) =>
                 SaleId(sales[k]) \in processed_sales

\* the first sale of the list failed and the second one was published
C8_Witness ==
    /\ pc = "processing"
    /\ idx = 2
    /\ SaleId(sales[1]) \in cycle_errors
    /\ SaleId(sales[1]) \notin processed_sales
    /\ Len(SentThisCycle) = 1
    /\ SentThisCycle[1].sale_id = SaleId(sales[2])

\* the place of the first event of transaction tx_hash in a response
FirstIndex(events, tx_hash) ==
    CHOOSE k \in 1..Len(events) :
        /\ events[k].tx_hash = tx_hash
        /\ \A m \in 1..(k - 1) : events[m].tx_hash # tx_hash

\* the place of the sale of transaction tx_hash in the fetched list
SaleIndex(tx_hash) == CHOOSE k \in 1..Len(sales) : sales[k].tx_hash = tx_hash

\* C9: the notifications of one cycle are published in the order of the
\* fetched list, which is the order in which the transactions first appear
\* in the response; and notifications are only ever appended, those of a
\* cycle after all those of the cycles before it.
C9_DispatchOrder ==
    /\ [](pc = "processing" =>
            \A i \in 1..Len(SentThisCycle) : \A j \in 1..Len(SentThisCycle) :
                i < j =>
                  /\ SaleIndex(SentThisCycle[i].tx_hash)
                        < SaleIndex(SentThisCycle[j].tx_hash)
                  /\ FirstIndex(raw, SentThisCycle[i].tx_hash)
                        < FirstIndex(raw, SentThisCycle[j].tx_hash))
    /\ [][/\ Len(published') >= Len(published)
          /\ SubSeq(published', 1, Len(published)) = published
          /\ sent_at_start' >= sent_at_start
          /\ sent_at_start' <= Len(published')]_vars

\* two notifications of one cycle, the first of them for the transaction
\* whose events open and close the response
C9_Witness ==
    /\ pc = "processing"
    /\ Len(raw) = 3
    /\ raw[1].tx_hash = "0xb"
    /\ raw[2].tx_hash = "0xa"
    /\ raw[3].tx_hash = "0xb"
    /\ Len(SentThisCycle) = 2
    /\ SentThisCycle[1].tx_hash = "0xb"

-----------------------------------------------------------------------------
(* Properties of the sale aggregator *)

\* the places of the events of transaction tx_hash in a response
EventsOf(events, tx_hash) == {k \in 1..Len(events) : events[k].tx_hash = tx_hash}

\* the event carries an asset
HasAsset(event) == event.asset # {}

\* the event carries an asset with a token id
HasTokenId(event) == \E asset \in event.asset : asset.token_id # ""

\* the hashes of a response
HashesOf(events) == {events[k].tx_hash : k \in 1..Len(events)}

\* a response made of events of exactly two transactions
TwoGroups(events) ==
    /\ "" \notin HashesOf(events)
    /\ Cardinality(HashesOf(events)) = 2

\* C5 as stated: two groups always give exactly two SaleEvents, one for each
\* hash, the count of each being the size of its group less its events
\* without an asset reference.
C5_AlwaysTwoSales ==
    (pc = "parsed" /\ TwoGroups(raw)) =>
        /\ Len(sales) = 2
        /\ HashesOf(sales) = HashesOf(raw)
        /\ \A k \in 1..Len(sales) :
             LET group == EventsOf(raw, sales[k].tx_hash)
             IN  /\ sales[k].token_count <= Cardinality(group)
                 /\ sales[k].token_count =
                      Cardinality(group)
                        - Cardinality({m \in group : ~HasAsset(raw[m])})

\* C5, amended: two groups give one SaleEvent for each hash that has an
\* event with an asset token id, in the order the hashes first appear, and
\* none for a hash without; the count of each is the number of events of its
\* group that have an asset token id, so at most the size of the group; two
\* SaleEvents come out exactly when both groups have such an event.
C5_OneSalePerGroupWithTokens ==
    (pc = "parsed" /\ TwoGroups(raw)) =>
        LET kept == {h \in HashesOf(raw) :
                        \E m \in EventsOf(raw, h) : HasTokenId(raw[m])}
        IN  /\ Len(sales) = Cardinality(kept)
            /\ HashesOf(sales) = kept
            /\ \A k \in 1..Len(sales) : \A m \in 1..Len(sales) :
                 k < m => FirstIndex(raw, sales[k].tx_hash)
                            < FirstIndex(raw, sales[m].tx_hash)
            /\ \A k \in 1..Len(sales) :
                 LET group == EventsOf(raw, sales[k].tx_hash)
                 IN  /\ sales[k].token_count =
                          Cardinality({m \in group : HasTokenId(raw[m])})
                     /\ sales[k].token_count >= 1
                     /\ sales[k].token_count <= Cardinality(group)

\* two SaleEvents, one of them with fewer tokens than its group has events
C5_Witness ==
    /\ pc = "parsed"
    /\ TwoGroups(raw)
    /\ Len(sales) = 2
    /\ \E k \in 1..2 :
         /\ Cardinality(EventsOf(raw, sales[k].tx_hash)) = 2
         /\ sales[k].token_count = 1

\* the legs of a group paid in the native currency
NativeLegs(events, tx_hash) ==
    SelectSeq(events, LAMBDA e :
        /\ e.tx_hash = tx_hash
        /\ (e.payment_token.symbol = "ETH" \/ e.payment_token.name = "Ether"))

\* the amount a leg states: the number its total_price spells, 0 when the
\* field is missing or spells no number
RECURSIVE StatedAmounts(_)
StatedAmounts(legs) ==
    IF legs = <<>> THEN <<>>
    ELSE LET stated == UNION {IntOf(text) : text \in Head(legs).total_price}
         IN  <<IF stated = {} THEN 0 ELSE Val(stated)>>
                 \o StatedAmounts(Tail(legs))

\* C6: the total_price of a SaleEvent is the sum of the amounts of the legs
\* of its group that are paid in the native currency (symbol ETH or name
\* Ether); the other legs add nothing.
C6_NativeLegsOnly ==
    pc = "parsed" =>
        \A k \in 1..Len(sales) :
            sales[k].total_price
                = SumSeq(StatedAmounts(NativeLegs(raw, sales[k].tx_hash)))

\* a group of one native leg of value 3 and one leg in another currency
C6_Witness ==
    /\ pc = "parsed"
    /\ \E k \in 1..Len(sales) :
         /\ Cardinality(EventsOf(raw, sales[k].tx_hash)) = 2
         /\ Len(NativeLegs(raw, sales[k].tx_hash)) = 1
         /\ NativeLegs(raw, sales[k].tx_hash)[1].total_price = Some(<<"3">>)
         /\ \E m \in EventsOf(raw, sales[k].tx_hash) :
              raw[m].total_price = Some(<<"5">>)
         /\ sales[k].total_price = 3

\* C10 as stated: every SaleEvent, a single sale included, has a non-empty
\* token_ids sequence, and token_count is its length.
C10_TokenIdsMatchCount ==
    pc = "parsed" =>
        \A k \in 1..Len(sales) :
            /\ ~IsNone(sales[k].token_ids)
            /\ \A token_ids \in sales[k].token_ids :
                 /\ token_ids # <<>>
                 /\ sales[k].token_count = Len(token_ids)

-----------------------------------------------------------------------------
(* Properties of the image enricher *)

\* the sizes of the batches issued so far
BatchSizes == [k \in 1..Len(img_batches) |-> Len(img_batches[k])]

\* the token ids looked up so far
Queried ==
    UNION {{img_batches[k][m] : m \in 1..Len(img_batches[k])} :
             k \in 1..Len(img_batches)}

\* the call was made on a list of n token ids
CalledWith(n) == ~IsNone(img_arg) /\ \A token_ids \in img_arg : Len(token_ids) = n

\* C7 as stated: 23 token ids are looked up in 5 batches of sizes 5, 5, 5, 5
\* and 3, and the 20th to 23rd of them are never looked up.
C7_FiveBatches ==
    CalledWith(23) =>
        /\ \A k \in 20..23 : Val(img_arg)[k] \notin Queried
        /\ pc = "img_done" => BatchSizes = <<5, 5, 5, 5, 3>>

\* C7, amended: 23 token ids are looked up in 4 batches of sizes 5, 5, 5 and
\* 5; the first 20 of them are looked up and the 21st to 23rd never are.
C7_FourBatches ==
    CalledWith(23) =>
        /\ \A k \in 21..23 : Val(img_arg)[k] \notin Queried
        /\ pc = "img_done" =>
             /\ BatchSizes = <<5, 5, 5, 5>>
             /\ Queried = {Val(img_arg)[k] : k \in 1..20}

\* the call on 23 token ids has returned
C7_Witness ==
    /\ pc = "img_done"
    /\ CalledWith(23)
    /\ Len(img_batches) = 4
    /\ Val(img_arg)[20] \in Queried

-----------------------------------------------------------------------------
(* Properties of the image enricher, continued *)

\* the first 20 token ids of the argument
FirstTokens(token_ids) ==
    [k \in 1..Min(Len(token_ids), MaxImageTokens) |-> token_ids[k]]

\* the urls of the token ids of a list whose lookup succeeds, in list order
SuccessfulUrls(token_ids, lookup) ==
    LET ok == SelectSeq(token_ids,
                        LAMBDA t : LookupOutcome(t, lookup) = "image")
    IN  [k \in 1..Len(ok) |-> UrlOf(ok[k])]

\* C11: whatever each metadata lookup meets (an image, a 200 without image
\* fields, a 429, another status, an exception), the call returns a list,
\* and the list is exactly the urls of the lookups that succeeded among the
\* first 20 token ids, in order: a failed lookup removes its own url only,
\* and the list is no longer than min(20, n).
C11_BestEffortImages ==
    pc = "img_done" =>
        IF IsNone(img_arg) THEN images = <<>>
        ELSE /\ images = SuccessfulUrls(FirstTokens(Val(img_arg)), img_lookup)
             /\ Len(images) <= Min(MaxImageTokens, Len(Val(img_arg)))
             /\ \A t \in img_lookup.failing : \A k \in 1..Len(images) :
                    images[k] # UrlOf(t)

\* a call on more than 20 token ids, one of whose first 20 lookups failed,
\* has returned the 19 other urls
C11_Witness ==
    /\ pc = "img_done"
    /\ ~IsNone(img_arg)
    /\ Len(Val(img_arg)) > MaxImageTokens
    /\ img_lookup.failing = {Val(img_arg)[7]}
    /\ Len(images) = MaxImageTokens - 1

\* C15: at any moment at most 5 metadata lookups are in flight; the lookups
\* of a batch start only when every lookup of the batch before has
\* completed; the pacing delay is taken between every two consecutive
\* batches, after the earlier one completed, and not after the last one.
C15_BoundedConcurrency ==
    /\ [](img_in_flight <= BatchSize)
    /\ [](pc = "img_done" /\ img_batches # <<>> =>
             img_sleeps = Len(img_batches) - 1)
    /\ [][/\ img_in_flight' > img_in_flight => img_in_flight = 0
          /\ Len(img_batches') > Len(img_batches) =>
                img_sleeps = Len(img_batches)
          /\ img_sleeps' > img_sleeps =>
                /\ img_in_flight = 0
                /\ img_sleeps' = Len(img_batches)]_vars

\* the third batch of a call is running with three of its lookups pending,
\* after two pacing delays
C15_Witness ==
    /\ pc = "img_gather"
    /\ Len(img_batches) = 3
    /\ img_sleeps = 2
    /\ img_in_flight = 3

-----------------------------------------------------------------------------
(* Properties of the polling loop, continued *)

\* C12: a tick that finds the client not ready or the channel handle None
\* ends the cycle at once: no events query is issued, the watermark, the
\* seen-set and the notifications published are as they were, and the loop
\* is idle again, so that the next tick starts from the same state.
C12_ChannelSkip ==
    [][(pc = "idle" /\ cycle' = cycle + 1
          /\ ~(tick_found'.ready /\ tick_found'.channel)) =>
         /\ pc' = "idle"
         /\ occurred_after' = NoneV
         /\ UNCHANGED <<now, fetchVars, botVars>>]_vars

\* a tick has just been skipped for want of the channel, after a cycle that
\* published a notification
C12_Witness ==
    /\ pc = "idle"
    /\ cycle = 2
    /\ tick_found = [ready |-> TRUE, channel |-> FALSE]
    /\ processed_sales # {}

-----------------------------------------------------------------------------
(* Properties of the notification payload *)

\* the sale of the payload harness and the notification made for it
Notified == pc = "notified" /\ ~IsNone(sent)

\* C13: a sale of t >= 1 tokens is classified single for t = 1, mini for
\* 2 <= t <= 5, big for 6 <= t <= 10 and huge for t >= 11, and as nothing
\* else.
C13_SweepCategory ==
    Notified =>
        LET t == sales[1].token_count
            category == Val(sent).embed.category
        IN  /\ category \in {"single", "mini", "big", "huge"}
            /\ category = "single" <=> t = 1
            /\ category = "mini" <=> (2 <= t /\ t <= 5)
            /\ category = "big" <=> (6 <= t /\ t <= 10)
            /\ category = "huge" <=> t >= 11

\* a sale of 5 tokens has been classified mini
C13_Witness ==
    /\ Notified
    /\ sales[1].token_count = 5
    /\ Val(sent).embed.category = "mini"

\* C14: for a non-negative amount of wei the text of format_price ends
\* neither in a decimal point nor in a zero of the fractional part; 10^18
\* wei gives "1", 12 * 10^17 wei gives "1.2" and 0 wei gives "0".
C14_FormatPrice ==
    pc = "formatted" =>
        LET text == Val(formatted)
            last == text[Len(text)]
        IN  /\ text # <<>>
            /\ last # "."
            /\ (\E k \in 1..Len(text) : text[k] = ".") => last # "0"
            /\ fmt_arg = Wei(1, 18) => text = <<"1">>
            /\ fmt_arg = Wei(12, 17) => text = <<"1", ".", "2">>
            /\ fmt_arg.mantissa = 0 => text = <<"0">>

\* 12 * 10^17 wei has been formatted as "1.2"
C14_Witness ==
    /\ pc = "formatted"
    /\ fmt_arg = Wei(12, 17)
    /\ formatted = Some(<<"1", ".", "2">>)

\* C17 as stated: for every sale that process_sales publishes, single-token
\* sales included, one lookup was issued for each of the first 20 token ids
\* of the sale, and when none of the lookups failed the notification
\* carries at least one image.
C17_LookupPerToken ==
    (/\ pc = "processing"
     /\ idx >= 1
     /\ ~IsNone(sent)) =>
        \A k \in 1..idx :
            Val(sent).sale_id = SaleId(sales[k]) =>
                /\ Val(sent).lookups = FirstTokens(SaleTokensOf(sales[k]))
                /\ Val(sent).failed = {} => Val(sent).nft_images # <<>>

\* C18 as stated: every entry of the "NFT Images" field labelled with token
\* id T links the url resolved for T, whichever lookups failed; the field
\* has at most 10 entries, and when there are more than 10 urls the
\* overflow count is the number of urls not listed.
C18_LabelsMatchUrls ==
    Notified =>
        LET embed == Val(sent).embed
            nft_images == Val(sent).nft_images
        IN  /\ \A i \in 1..Len(embed.image_links) :
                   embed.image_links[i].url = UrlOf(embed.image_links[i].label)
            /\ Len(embed.image_links) <= MaxImageLinks
            /\ Len(nft_images) > MaxImageLinks =>
                   embed.more = Len(nft_images) - Len(embed.image_links)

-----------------------------------------------------------------------------
(* Properties of the aggregator, continued *)

\* the parser was called on the body and returned or raised
ParseEnded == pc \in {"parsed", "parse_raised"}

\* C16 as stated: whatever events a response holds, for each transaction of
\* it a SaleEvent is emitted exactly when an event of the transaction has a
\* token id, and its total_price is the sum of the native legs whose price
\* spells a number, the other legs adding 0; a malformed event of one
\* transaction takes nothing from the SaleEvents of the others.
C16_SmallestScope ==
    ParseEnded =>
        \A h \in HashesOf(raw) \ {""} :
            /\ (\E m \in EventsOf(raw, h) : HasTokenId(raw[m]))
                  <=> (\E k \in 1..Len(sales) : sales[k].tx_hash = h)
            /\ \A k \in 1..Len(sales) :
                  sales[k].tx_hash = h =>
                      sales[k].total_price
                          = SumSeq(StatedAmounts(NativeLegs(raw, h)))

-----------------------------------------------------------------------------
(* Properties of the seen-set *)

\* the dedup keys of the notifications published since the start
PublishedKeys == {published[k].sale_id : k \in 1..Len(published)}

\* C19: the seen-set holds exactly the dedup keys of the sales whose
\* notification was accepted by the channel, and as many keys as there are
\* notifications published since the start; a key enters the set only in
\* the step that published its notification, and no key ever leaves.
C19_SeenSet ==
    /\ [](processed_sales = PublishedKeys)
    /\ [](Cardinality(processed_sales) = Len(published))
    /\ [][/\ processed_sales \subseteq processed_sales'
          /\ processed_sales' # processed_sales =>
                /\ Len(published') = Len(published) + 1
                /\ processed_sales' = processed_sales
                      \cup {published'[Len(published')].sale_id}]_vars

\* in one cycle a publish failed and another succeeded: the key of the
\* first is not in the set, the key of the second is
C19_Witness ==
    /\ pc = "processing"
    /\ cycle_errors # {}
    /\ cycle_errors \cap processed_sales = {}
    /\ Cardinality(processed_sales) = 1
    /\ Len(published) = 1

-----------------------------------------------------------------------------
(* Properties of the bot in front of the marketplace *)

\* the number of notifications published for a transaction
TimesPublished(tx_hash) ==
    Cardinality({k \in 1..Len(published) : published[k].tx_hash = tx_hash})

\* C20 as stated, in the form a finite run refutes: no sale is lost.  Every
\* sale completed after the initial watermark is published at most once,
\* and whenever the loop is idle a sale not yet published is one that the
\* next query, which asks for the sales since the watermark, still returns:
\* so is a sale whose publish failed, and so is a sale completed between
\* the answer of the marketplace and the setting of the watermark.  The
\* watermark never goes back, so a sale that fails this is never published.
C20_NoSaleLost ==
    \A s \in market :
        /\ TimesPublished(s.tx_hash) <= 1
        /\ (pc = "idle" /\ TimesPublished(s.tx_hash) = 0) =>
               Timestamp(s.time) >= Timestamp(last_fetch_time)

====
